---- MODULE Spec2Model ----
(***************************************************************************)
(* A model of django-csp's policy assembly (csp/utils.py: build_policy),   *)
(* of the decorators that attach per-view overrides to a response          *)
(* (csp/decorators.py) and of the script tag renderer (csp/utils.py:       *)
(* build_script_tag).                                                      *)
(*                                                                         *)
(* A Python str is a sequence of lexemes; the str is their concatenation.  *)
(* The lexemes are chosen so that everything the code looks at inside a    *)
(* str (white space for strip(), "<script", ">" and "</script>" for the    *)
(* regular expression) is a lexeme of its own.  Python lists are objects   *)
(* of a heap, so that aliasing and in-place mutation are visible; tuples,  *)
(* strs, bools, ints and None are immutable values.                        *)
(***************************************************************************)
EXTENDS Integers, Sequences, FiniteSets, TLC

VARIABLES
    heap,       \* the list objects shared between calls: address -> items
    config,     \* the config dict handed to build_policy
    view,       \* the dicts captured by csp_update(...) / csp_replace(...)
    response,   \* the response the decorated view returned (its _csp_* attributes)
    pc,         \* "idle" | "responded" (policy part); "tag" | "done" (script tag part)
    calls,      \* number of build_policy calls made so far
    last,       \* the arguments of the last build_policy call
    result,     \* what the last build_policy call returned or raised
    tagcall,    \* the arguments of the build_script_tag call
    tag,        \* what build_script_tag returned
    threads     \* the build_policy calls in progress, one frame for each thread

vars == <<heap, config, view, response, pc, calls, last, result, tagcall, tag, threads>>

-----------------------------------------------------------------------------
(* Python str operations *)

Whitespace == {" ", "\t", "\n"}

RECURSIVE lstrip(_)
lstrip(s) == IF s # <<>> /\ Head(s) \in Whitespace THEN lstrip(Tail(s)) ELSE s

RECURSIVE rstrip(_)
rstrip(s) ==
    IF s # <<>> /\ s[Len(s)] \in Whitespace
    THEN rstrip(SubSeq(s, 1, Len(s) - 1))
    ELSE s

strip(s) == lstrip(rstrip(s))

\* sep.join(parts), parts a sequence of strs
RECURSIVE join(_, _)
join(sep, parts) ==
    IF parts = <<>> THEN <<>>
    ELSE IF Len(parts) = 1 THEN parts[1]
    ELSE parts[1] \o sep \o join(sep, Tail(parts))

-----------------------------------------------------------------------------
(* Python values *)

Mk(kind, b, n, s, items, ref) ==
    [kind |-> kind, b |-> b, n |-> n, s |-> s, items |-> items, ref |-> ref]

PyNone == Mk("None", FALSE, 0, <<>>, <<>>, 0)
PyBool(b) == Mk("bool", b, 0, <<>>, <<>>, 0)
PyInt(n) == Mk("int", FALSE, n, <<>>, <<>>, 0)
PyStr(s) == Mk("str", FALSE, 0, s, <<>>, 0)
PyTuple(items) == Mk("tuple", FALSE, 0, <<>>, items, 0)
PyList(ref) == Mk("list", FALSE, 0, <<>>, <<>>, ref)

\* isinstance(v, (list, tuple))
is_list_or_tuple(v) == v.kind \in {"list", "tuple"}

\* the items of a list (through the heap) or of a tuple
items_of(h, v) == IF v.kind = "list" THEN h[v.ref] ELSE v.items

\* bool(v) for the values the code tests
truthy(h, v) ==
    CASE v.kind = "None" -> FALSE
      [] v.kind = "bool" -> v.b
      [] v.kind = "int" -> v.n # 0
      [] v.kind = "str" -> v.s # <<>>
      [] OTHER -> items_of(h, v) # <<>>

DigitLexeme == <<"0", "1", "2", "3", "4", "5", "6", "7", "8", "9">>

RECURSIVE int_str(_)
int_str(n) ==
    IF n < 0 THEN <<"-">> \o int_str(-n)
    ELSE IF n < 10 THEN <<DigitLexeme[n + 1]>>
    ELSE int_str(n \div 10) \o <<DigitLexeme[(n % 10) + 1]>>

\* django.utils.encoding.force_str on a token: str(token)
force_str(t) ==
    CASE t.kind = "str" -> t.s
      [] t.kind = "bool" -> IF t.b THEN <<"True">> ELSE <<"False">>
      [] t.kind = "int" -> int_str(t.n)
      [] OTHER -> <<"None">>

\* a fresh heap address
fresh(h) == IF DOMAIN h = {} THEN 1
            ELSE (CHOOSE a \in DOMAIN h : \A b \in DOMAIN h : b <= a) + 1

\* copy.copy(v): a new list object with the same items; immutable values
\* are returned as they are
copy_copy_alias(h, v) == [heap |-> h, v |-> v]

copy_copy(h, v) ==
    IF v.kind = "list"
    THEN [heap |-> h @@ (fresh(h) :> h[v.ref]), v |-> PyList(fresh(h))]
    ELSE [heap |-> h, v |-> v]

\* += that leaves out the tokens the target already holds
iadd_dedupe(h, target, items) ==
    LET old == items_of(h, target)
        new == SelectSeq(items, LAMBDA x : \A i \in 1..Len(old) : old[i] # x)
    IN  IF target.kind = "list"
        THEN [heap |-> [h EXCEPT ![target.ref] = @ \o new], v |-> target]
        ELSE [heap |-> h, v |-> PyTuple(target.items \o new)]

\* target += tuple(items): a list is extended in place, a tuple is replaced
\* by a new tuple
iadd(h, target, items) ==
    IF target.kind = "list"
    THEN [heap |-> [h EXCEPT ![target.ref] = @ \o items], v |-> target]
    ELSE [heap |-> h, v |-> PyTuple(target.items \o items)]

-----------------------------------------------------------------------------
(* Python dicts: insertion-ordered sequences of [k, v] entries *)

dict_has(d, k) == \E i \in 1..Len(d) : d[i].k = k

dict_index(d, k) == CHOOSE i \in 1..Len(d) : d[i].k = k

dict_get(d, k, default) == IF dict_has(d, k) THEN d[dict_index(d, k)].v ELSE default

dict_set(d, k, v) ==
    IF dict_has(d, k)
    THEN [d EXCEPT ![dict_index(d, k)] = [k |-> k, v |-> v]]
    ELSE Append(d, [k |-> k, v |-> v])

dict_pop(d, k) == SelectSeq(d, LAMBDA e : e.k # k)

dict_keys(d) == {d[i].k : i \in 1..Len(d)}

-----------------------------------------------------------------------------
(* build_policy *)

\* an optional dict argument (update=None, replace=None)
NoDict == [isnone |-> TRUE, d |-> <<>>]
SomeDict(d) == [isnone |-> FALSE, d |-> d]

\* x if x is not None else {}
or_empty(x) == IF x.isnone THEN <<>> ELSE x.d

REPORT_URI == <<"report-uri">>
DEFAULT_SRC == <<"default-src">>

\* the pass with a None in replace falling back to the base value
merge_entry_falls_back(st, k, directives, replace) ==
    LET v == IF dict_get(replace, k, PyNone) # PyNone
             THEN dict_get(replace, k, PyNone)
             ELSE dict_get(directives, k, PyNone)
    IN  IF v = PyNone THEN st
        ELSE LET c == copy_copy(st.heap, v)
                 w == IF is_list_or_tuple(c.v) THEN c.v ELSE PyTuple(<<c.v>>)
             IN  [heap |-> c.heap, csp |-> dict_set(st.csp, k, w)]

\* the pass without its copy.copy(v)
merge_entry_no_copy(st, k, directives, replace) ==
    LET v == IF dict_has(replace, k)
             THEN dict_get(replace, k, PyNone)
             ELSE dict_get(directives, k, PyNone)
    IN  IF v = PyNone THEN st
        ELSE [heap |-> st.heap,
              csp |-> dict_set(st.csp, k, IF is_list_or_tuple(v) THEN v ELSE PyTuple(<<v>>))]

\* one pass of the loop over set(chain(config["DIRECTIVES"], replace))
merge_entry(st, k, directives, replace) ==
    LET v == IF dict_has(replace, k)
             THEN dict_get(replace, k, PyNone)
             ELSE dict_get(directives, k, PyNone)
    IN  IF v = PyNone THEN st
        ELSE LET c == copy_copy(st.heap, v)
                 w == IF is_list_or_tuple(c.v) THEN c.v ELSE PyTuple(<<c.v>>)
             IN  [heap |-> c.heap, csp |-> dict_set(st.csp, k, w)]

RECURSIVE merge_base(_, _, _, _)
merge_base(st, order, directives, replace) ==
    IF order = <<>> THEN st
    ELSE merge_base(merge_entry(st, Head(order), directives, replace),
                    Tail(order), directives, replace)

\* one pass of the loop over update.items()
update_entry(st, k, v0) ==
    IF v0 = PyNone THEN st
    ELSE LET v == IF is_list_or_tuple(v0) THEN v0 ELSE PyTuple(<<v0>>)
             old == dict_get(st.csp, k, PyNone)
         IN  IF old = PyNone
             THEN [heap |-> st.heap, csp |-> dict_set(st.csp, k, v)]
             ELSE LET r == iadd(st.heap, old, items_of(st.heap, v))
                  IN  [heap |-> r.heap, csp |-> dict_set(st.csp, k, r.v)]

RECURSIVE apply_update(_, _)
apply_update(st, update) ==
    IF update = <<>> THEN st
    ELSE apply_update(update_entry(st, Head(update).k, Head(update).v), Tail(update))

\* " ".join(value) raises TypeError unless every item is a str
all_str(items) == \A i \in 1..Len(items) : items[i].kind = "str"

space_join(strs) == join(<<" ">>, strs)

is_bool(items, b) == Len(items) # 0 /\ items[1].kind = "bool" /\ items[1].b = b

\* the pass with every boolean first token taken as a flag
serialize_entry_any_bool(st, key, value) ==
    IF st.error THEN st
    ELSE IF is_bool(value, TRUE) \/ is_bool(value, FALSE)
         THEN [st EXCEPT !.parts = dict_set(@, key, <<>>)]
    ELSE IF all_str(value)
         THEN [st EXCEPT !.parts =
                  dict_set(@, key, space_join([i \in 1..Len(value) |-> value[i].s]))]
         ELSE [st EXCEPT !.error = TRUE]

\* one pass of the loop that fills policy_parts; st = [error, parts]
serialize_entry(st, key, value) ==
    IF st.error THEN st
    ELSE IF is_bool(value, TRUE) THEN [st EXCEPT !.parts = dict_set(@, key, <<>>)]
    ELSE IF is_bool(value, FALSE) THEN st
    ELSE IF all_str(value)
         THEN [st EXCEPT !.parts =
                  dict_set(@, key, space_join([i \in 1..Len(value) |-> value[i].s]))]
         ELSE [st EXCEPT !.error = TRUE]

RECURSIVE serialize(_, _, _)
serialize(st, h, csp) ==
    IF csp = <<>> THEN st
    ELSE serialize(serialize_entry(st, Head(csp).k, items_of(h, Head(csp).v)),
                   h, Tail(csp))

\* if report_uri: policy_parts["report-uri"] = " ".join(map(force_str, report_uri))
add_report_uri(parts, h, report_uri) ==
    IF truthy(h, report_uri)
    THEN LET its == items_of(h, report_uri)
         IN  dict_set(parts, REPORT_URI,
                      space_join([i \in 1..Len(its) |-> force_str(its[i])]))
    ELSE parts

\* f"{policy} 'nonce-{nonce}'"
nonce_source(policy, nonce) == policy \o <<" ", "'nonce-">> \o nonce \o <<"'">>

\* the pass that leaves out a section with no fragment yet
inject_entry_existing_only(parts, section, nonce) ==
    IF dict_has(parts, section)
    THEN dict_set(parts, section, strip(nonce_source(dict_get(parts, section, <<>>), nonce)))
    ELSE parts

\* one pass of the loop over include_nonce_in
inject_entry(parts, section, nonce) ==
    dict_set(parts, section, strip(nonce_source(dict_get(parts, section, <<>>), nonce)))

RECURSIVE inject_nonce(_, _, _)
inject_nonce(parts, include_nonce_in, nonce) ==
    IF include_nonce_in = <<>> THEN parts
    ELSE inject_nonce(inject_entry(parts, Head(include_nonce_in), nonce),
                      Tail(include_nonce_in), nonce)

\* config.get("INCLUDE_NONCE_IN", ["default-src"])
include_nonce_in_of(cfg) ==
    IF cfg.has_INCLUDE_NONCE_IN THEN cfg.INCLUDE_NONCE_IN ELSE <<DEFAULT_SRC>>

\* "; ".join([f"{k} {val}".strip() for k, val in policy_parts.items()])
fragment(k, val) == strip(k \o <<" ">> \o val)

render_policy(parts) ==
    join(<<";", " ">>, [i \in 1..Len(parts) |-> fragment(parts[i].k, parts[i].v)])

\* the working directive map after the base/replace and the update passes
merged(h, cfg, update, replace, order) ==
    apply_update(
        merge_base([heap |-> h, csp |-> <<>>], order, cfg.DIRECTIVES, or_empty(replace)),
        or_empty(update))

\* policy_parts before nonce injection: [error, parts]
policy_parts_of(m) ==
    LET ser == serialize([error |-> FALSE, parts |-> <<>>], m.heap,
                         dict_pop(m.csp, REPORT_URI))
    IN  IF ser.error THEN ser
        ELSE [ser EXCEPT !.parts =
                 add_report_uri(@, m.heap, dict_get(m.csp, REPORT_URI, PyNone))]

\* the iteration orders of set(chain(config["DIRECTIVES"], replace)): a set
\* of strs iterates in an arbitrary order
key_set(cfg, replace) == dict_keys(cfg.DIRECTIVES) \cup dict_keys(or_empty(replace))

orders(S) ==
    {f \in [1..Cardinality(S) -> S] : \A i, j \in 1..Cardinality(S) : i # j => f[i] # f[j]}

\* the rest of build_policy once the working directive map m is complete:
\* what it returns or raises
serialize_policy(m, cfg, nonce) ==
    LET pp == policy_parts_of(m)
    IN  IF pp.error
        THEN [status |-> "TypeError", s |-> <<>>]
        ELSE [status |-> "ok",
              s |-> render_policy(
                       IF truthy(m.heap, nonce)
                       THEN inject_nonce(pp.parts, include_nonce_in_of(cfg), nonce.s)
                       ELSE pp.parts)]

\* build_policy(config, update, replace, nonce), iterating the key set in
\* `order`: the heap it leaves and what it returns or raises
build_policy(h, cfg, update, replace, nonce, order) ==
    LET m == merged(h, cfg, update, replace, order)
        r == serialize_policy(m, cfg, nonce)
    IN  [heap |-> m.heap, status |-> r.status, s |-> r.s]

-----------------------------------------------------------------------------
(* The decorators of csp/decorators.py: the wrapped view attaches the dict
   the decorator was given, the same object for every response *)

NewResponse == [_csp_update |-> NoDict, _csp_replace |-> NoDict]

\* csp_update(update)(f)(): r = f(); r._csp_update = update
csp_update(r, update) == [r EXCEPT !._csp_update = SomeDict(update)]

\* csp_replace(replace)(f)(): r = f(); r._csp_replace = replace
csp_replace(r, replace) == [r EXCEPT !._csp_replace = SomeDict(replace)]

-----------------------------------------------------------------------------
(* The inputs: one directive gets every kind of value in each of the three
   layers, the other directives of the config have ordinary values *)

MaxCalls == 2

SCRIPT_SRC == <<"script-src">>
UPGRADE == <<"upgrade-insecure-requests">>

Absent == Mk("absent", FALSE, 0, <<>>, <<>>, 0)
ListLit(items) == Mk("listlit", FALSE, 0, <<>>, items, 0)

FocusNames == {DEFAULT_SRC, REPORT_URI}

BaseShapes ==
    { Absent, PyNone, PyBool(TRUE), PyBool(FALSE), PyStr(<<"'self'">>), PyInt(5),
      ListLit(<<PyStr(<<"'self'">>), PyStr(<<"a.com">>)>>),
      PyTuple(<<PyStr(<<"'self'">>)>>), ListLit(<<>>) }

ReplaceShapes ==
    { Absent, PyNone, PyBool(TRUE), PyStr(<<"r.com">>),
      ListLit(<<PyStr(<<"r.com">>), PyStr(<<"'self'">>)>>),
      PyTuple(<<PyStr(<<"r.com">>)>>) }

UpdateShapes ==
    { Absent, PyNone, PyBool(FALSE), PyStr(<<"u.com">>), PyInt(7),
      ListLit(<<PyStr(<<"u.com">>), PyStr(<<"'self'">>)>>),
      PyTuple(<<PyStr(<<"u.com">>)>>) }

\* the other directives of the config (the focus directive's entry is taken
\* out), each list literal with its heap address
Backgrounds ==
    { <<>>,
      << [k |-> DEFAULT_SRC, v |-> ListLit(<<PyStr(<<"'self'">>)>>), at |-> 4],
         [k |-> SCRIPT_SRC, v |-> PyTuple(<<PyStr(<<"s.com">>)>>), at |-> 0] >>,
      << [k |-> REPORT_URI, v |-> ListLit(<<PyStr(<<"/r">>), PyStr(<<"/q">>)>>), at |-> 5],
         [k |-> UPGRADE, v |-> PyBool(TRUE), at |-> 0] >> }

NonceIncludes ==
    { [has |-> FALSE, names |-> <<>>],
      [has |-> TRUE, names |-> <<SCRIPT_SRC, DEFAULT_SRC, DEFAULT_SRC>>],
      [has |-> TRUE, names |-> <<SCRIPT_SRC, DEFAULT_SRC>>],
      [has |-> TRUE, names |-> <<UPGRADE, REPORT_URI>>] }

Nonces == {PyNone, PyStr(<<>>), PyStr(<<"abc">>)}

EmptyHeap == [a \in {} |-> <<>>]

\* a literal as a value, its list (if it is one) at heap address `at`
value_at(shape, at) == IF shape.kind = "listlit" THEN PyList(at) ELSE shape

heap_at(shape, at) == IF shape.kind = "listlit" THEN at :> shape.items ELSE EmptyHeap

literal_dict(k, shape, at) ==
    IF shape = Absent THEN <<>> ELSE <<[k |-> k, v |-> value_at(shape, at)]>>

RECURSIVE background_dict(_)
background_dict(bg) ==
    IF bg = <<>> THEN <<>>
    ELSE literal_dict(Head(bg).k, Head(bg).v, Head(bg).at) \o background_dict(Tail(bg))

RECURSIVE background_heap(_)
background_heap(bg) ==
    IF bg = <<>> THEN EmptyHeap
    ELSE heap_at(Head(bg).v, Head(bg).at) @@ background_heap(Tail(bg))

optional_dict(k, shape, at) ==
    IF shape = Absent THEN NoDict ELSE SomeDict(literal_dict(k, shape, at))

NoCall == [nonce |-> PyNone, order |-> <<>>]
NoResult == [status |-> "none", s |-> <<>>]
NoTagCall == [content |-> PyNone, kwargs |-> <<>>]

\* the frame of a thread that is not inside build_policy
NoFrame == [at |-> "idle", response |-> NewResponse, keys |-> <<>>, items |-> <<>>,
            csp |-> <<>>, lists |-> [a \in {} |-> <<>>]]

MaxThreads == 2

Threads == 1..MaxThreads

\* a config, the dicts the decorators of a view captured and the lists they
\* hold; no call has been made
Setup(mode, replaces, backgrounds, includes) ==
    \E focus \in FocusNames, b \in BaseShapes, r \in replaces, u \in UpdateShapes,
       bg \in backgrounds, ni \in includes :
        LET rest == SelectSeq(bg, LAMBDA e : e.k # focus)
        IN  /\ config = [DIRECTIVES |-> literal_dict(focus, b, 1) \o background_dict(rest),
                         has_INCLUDE_NONCE_IN |-> ni.has,
                         INCLUDE_NONCE_IN |-> ni.names]
            /\ view = [replace |-> optional_dict(focus, r, 2),
                       update |-> optional_dict(focus, u, 3)]
            /\ heap = heap_at(b, 1) @@ heap_at(r, 2) @@ heap_at(u, 3) @@ background_heap(rest)
            /\ response = NewResponse
            /\ pc = mode
            /\ calls = 0
            /\ last = NoCall
            /\ result = NoResult
            /\ tagcall = NoTagCall
            /\ tag = <<>>
            /\ threads = [t \in Threads |-> NoFrame]

Init == Setup("idle", ReplaceShapes, Backgrounds, NonceIncludes)

\* a request: the decorated view is called and returns a new response, which
\* has no policy yet
ViewCall ==
    /\ pc = "idle"
    /\ calls < MaxCalls
    /\ response' =
          LET r1 == IF view.update.isnone THEN NewResponse
                    ELSE csp_update(NewResponse, view.update.d)
          IN  IF view.replace.isnone THEN r1 ELSE csp_replace(r1, view.replace.d)
    /\ pc' = "responded"
    /\ last' = NoCall
    /\ result' = NoResult
    /\ UNCHANGED <<heap, config, view, calls, tagcall, tag, threads>>

\* build_policy(config, update=response._csp_update,
\*              replace=response._csp_replace, nonce=nonce)
BuildPolicy ==
    /\ pc = "responded"
    /\ \E nonce \in Nonces, order \in orders(key_set(config, response._csp_replace)) :
          LET r == build_policy(heap, config, response._csp_update,
                                response._csp_replace, nonce, order)
          IN  /\ heap' = [a \in DOMAIN heap |-> r.heap[a]]
              /\ result' = [status |-> r.status, s |-> r.s]
              /\ last' = [nonce |-> nonce, order |-> order]
    /\ calls' = calls + 1
    /\ pc' = "idle"
    /\ UNCHANGED <<config, view, response, tagcall, tag, threads>>

Next == ViewCall \/ BuildPolicy

Spec == Init /\ [][Next]_vars

-----------------------------------------------------------------------------------------------------------------------------------------------------
(* build_policy called from several threads at once with the same config and
   the same decorator-held dicts.  A step of a thread is one pass of a loop
   of build_policy.  `heap` holds the lists every thread can reach; the lists
   a call creates can be reached from its frame only and are kept there, at
   addresses of the frame's own. *)

\* the loop a frame is at once the passes before it are over
at_after_merge(keys, items) ==
    IF keys # <<>> THEN "merge" ELSE IF items # <<>> THEN "update" ELSE "serialize"

\* the lists frame f can reach, and f after a pass that left the state st
lists_of(f) == heap @@ f.lists

after_pass(f, st) ==
    [f EXCEPT !.csp = st.csp,
              !.lists = [a \in DOMAIN st.heap \ DOMAIN heap |-> st.heap[a]]]

\* the inputs of the threads: the replace entries that are absent, None or a
\* list, and at most one other directive in the config, a list
ThreadReplaces == {r \in ReplaceShapes : r.kind \in {"absent", "None", "listlit"}}
ThreadBackgrounds ==
    { <<>>, << [k |-> DEFAULT_SRC, v |-> ListLit(<<PyStr(<<"'self'">>)>>), at |-> 4],
               [k |-> REPORT_URI, v |-> ListLit(<<PyStr(<<"/r">>)>>), at |-> 5] >> }
ThreadNonces == {PyNone, PyStr(<<"abc">>)}

InitThreads ==
    Setup("threads", ThreadReplaces, ThreadBackgrounds, {[has |-> FALSE, names |-> <<>>]})

\* a request on thread t, the first idle thread (the threads are
\* interchangeable): the decorated view returns its response and build_policy
\* is entered with the response's dicts; csp = {}
ThreadCall(t) ==
    /\ pc = "threads"
    /\ threads[t].at = "idle"
    /\ \A u \in 1..(t - 1) : threads[u].at # "idle"
    /\ calls < MaxCalls
    /\ LET r1 == IF view.update.isnone THEN NewResponse
                 ELSE csp_update(NewResponse, view.update.d)
           r == IF view.replace.isnone THEN r1 ELSE csp_replace(r1, view.replace.d)
       IN  \E order \in orders(key_set(config, r._csp_replace)) :
               threads' = [threads EXCEPT ![t] =
                              [NoFrame EXCEPT
                                  !.at = at_after_merge(order, or_empty(r._csp_update)),
                                  !.response = r, !.keys = order,
                                  !.items = or_empty(r._csp_update)]]
    /\ calls' = calls + 1
    /\ UNCHANGED <<heap, config, view, response, pc, last, result, tagcall, tag>>

\* one pass of the loop over set(chain(config["DIRECTIVES"], replace))
ThreadMerge(t) ==
    /\ threads[t].at = "merge"
    /\ LET f == threads[t]
           st == merge_entry([heap |-> lists_of(f), csp |-> f.csp], Head(f.keys),
                             config.DIRECTIVES, or_empty(f.response._csp_replace))
       IN  /\ heap' = [a \in DOMAIN heap |-> st.heap[a]]
           /\ threads' = [threads EXCEPT ![t] =
                              [after_pass(f, st) EXCEPT
                                  !.keys = Tail(f.keys),
                                  !.at = at_after_merge(Tail(f.keys), f.items)]]
    /\ UNCHANGED <<config, view, response, pc, calls, last, result, tagcall, tag>>

\* one pass of the loop over update.items()
ThreadUpdate(t) ==
    /\ threads[t].at = "update"
    /\ LET f == threads[t]
           st == update_entry([heap |-> lists_of(f), csp |-> f.csp],
                              Head(f.items).k, Head(f.items).v)
       IN  /\ heap' = [a \in DOMAIN heap |-> st.heap[a]]
           /\ threads' = [threads EXCEPT ![t] =
                              [after_pass(f, st) EXCEPT
                                  !.items = Tail(f.items),
                                  !.at = at_after_merge(<<>>, Tail(f.items))]]
    /\ UNCHANGED <<config, view, response, pc, calls, last, result, tagcall, tag>>

\* the serialization and the return: the frame and its lists are dropped
ThreadReturn(t) ==
    /\ threads[t].at = "serialize"
    /\ \E nonce \in ThreadNonces :
          LET f == threads[t]
          IN  result' = serialize_policy([heap |-> lists_of(f), csp |-> f.csp],
                                         config, nonce)
    /\ threads' = [threads EXCEPT ![t] = NoFrame]
    /\ UNCHANGED <<heap, config, view, response, pc, calls, last, tagcall, tag>>

NextThreads ==
    \E t \in Threads :
        ThreadCall(t) \/ ThreadMerge(t) \/ ThreadUpdate(t) \/ ThreadReturn(t)

SpecThreads == InitThreads /\ [][NextThreads]_vars

-----------------------------------------------------------------------------
(* build_script_tag *)

\* str(val), as an f-string formats it
py_str(v) == force_str(v)

\* f' {attr_name}="{val}"' if val else ""
default_attr_mapper(h, attr_name, val) ==
    IF truthy(h, val) THEN <<" ", attr_name, "=\"">> \o py_str(val) \o <<"\"">> ELSE <<>>

\* f" {attr_name}" if val else ""
bool_attr_mapper(h, attr_name, val) ==
    IF truthy(h, val) THEN <<" ", attr_name>> ELSE <<>>

\* val in [False, "False"]: == on the list's items (0 == False in Python)
in_false_list(val) ==
    \/ val.kind = "bool" /\ ~val.b
    \/ val.kind = "int" /\ val.n = 0
    \/ val.kind = "str" /\ val.s = <<"False">>

async_attr_mapper(h, attr_name, val) ==
    IF in_false_list(val) THEN <<" ", attr_name, "=false">>
    ELSE IF truthy(h, val) THEN <<" ", attr_name>>
    ELSE <<>>

\* SCRIPT_ATTRS: the attribute names in rendering order, each with its mapper
SCRIPT_ATTRS ==
    << [name |-> "nonce", mapper |-> "default"],
       [name |-> "id", mapper |-> "default"],
       [name |-> "src", mapper |-> "default"],
       [name |-> "type", mapper |-> "default"],
       [name |-> "async", mapper |-> "async"],
       [name |-> "defer", mapper |-> "bool"],
       [name |-> "integrity", mapper |-> "default"],
       [name |-> "nomodule", mapper |-> "bool"] >>

apply_mapper(mapper, attr_name, val) ==
    CASE mapper = "default" -> default_attr_mapper(EmptyHeap, attr_name, val)
      [] mapper = "bool" -> bool_attr_mapper(EmptyHeap, attr_name, val)
      [] OTHER -> async_attr_mapper(EmptyHeap, attr_name, val)

\* kwargs.get(attr_name)
kwargs_get(kwargs, attr_name) == dict_get(kwargs, attr_name, PyNone)

\* ATTR_FORMAT_STR.format(**data): the mapped attributes in SCRIPT_ATTRS order
RECURSIVE format_attrs(_, _)
format_attrs(attrs, kwargs) ==
    IF attrs = <<>> THEN <<>>
    ELSE apply_mapper(Head(attrs).mapper, Head(attrs).name,
                      kwargs_get(kwargs, Head(attrs).name))
         \o format_attrs(Tail(attrs), kwargs)

OPEN_TAG == "<script"
GT == ">"
CLOSE_TAG == <<"</script", ">">>

\* "</script>" starts at position k of text
closes_at(text, k) ==
    /\ k >= 1
    /\ k + 1 <= Len(text)
    /\ SubSeq(text, k, k + 1) = CLOSE_TAG

\* _script_tag_contents_re can match with "<script" at i and the opening
\* tag's ">" at j: at least one character, then "</script>", follow j
re_matches_from(text, i, j) ==
    /\ text[i] = OPEN_TAG
    /\ j > i
    /\ text[j] = GT
    /\ \E k \in (j + 2)..Len(text) : closes_at(text, k)

re_matches_at(text, i) == \E j \in 1..Len(text) : re_matches_from(text, i, j)

Least(S) == CHOOSE x \in S : \A y \in S : x <= y
Greatest(S) == CHOOSE x \in S : \A y \in S : y <= x

\* group(1) with the contents matched minimally: up to the first "</script>"
re_group_first_close(text) ==
    LET i == Least({x \in 1..Len(text) : re_matches_at(text, x)})
        j == Least({x \in 1..Len(text) : re_matches_from(text, i, x)})
        k == Least({x \in (j + 2)..Len(text) : closes_at(text, x)})
    IN  SubSeq(text, j + 1, k - 1)

\* group(1) of re.search: the leftmost "<script", the shortest opening tag
\* ([\s|\S]*?) and the longest contents ([\s|\S]+) that let the rest match
re_group(text) ==
    LET i == Least({x \in 1..Len(text) : re_matches_at(text, x)})
        j == Least({x \in 1..Len(text) : re_matches_from(text, i, x)})
        k == Greatest({x \in (j + 2)..Len(text) : closes_at(text, x)})
    IN  SubSeq(text, j + 1, k - 1)

unwrap_script(text) ==
    IF \E i \in 1..Len(text) : re_matches_at(text, i)
    THEN strip(re_group(text))
    ELSE text

\* the tag with the contents rendered whether or not there is a src
build_script_tag_keep_content(content, kwargs) ==
    LET c == IF truthy(EmptyHeap, content) THEN unwrap_script(content.s) ELSE <<>>
        attrs == rstrip(format_attrs(SCRIPT_ATTRS, kwargs))
    IN  strip(<<"<script">> \o attrs \o <<">">> \o c \o <<"</script", ">">>)

build_script_tag(content, kwargs) ==
    LET c == IF truthy(EmptyHeap, content) /\ ~truthy(EmptyHeap, kwargs_get(kwargs, "src"))
             THEN unwrap_script(content.s)
             ELSE <<>>
        attrs == rstrip(format_attrs(SCRIPT_ATTRS, kwargs))
    IN  strip(<<"<script">> \o attrs \o <<">">> \o c \o <<"</script", ">">>)

\* the inputs: every text of up to MaxPieces pieces with no attribute, and a
\* few texts with every combination of attribute values
MaxPieces == 6

Pieces == { <<OPEN_TAG, GT>>, CLOSE_TAG, <<OPEN_TAG>>, <<"a">>, <<" ">> }

RECURSIVE flatten(_)
flatten(ps) == IF ps = <<>> THEN <<>> ELSE Head(ps) \o flatten(Tail(ps))

\* the texts of at most `most` pieces
Texts(most) == UNION {{flatten(ps) : ps \in [1..n -> Pieces]} : n \in 0..most}

FewTexts ==
    { <<>>, <<"alert(1)">>, <<" ", "a", " ">>,
      <<OPEN_TAG, GT, "a">> \o CLOSE_TAG,
      <<OPEN_TAG, " ", "type=x", GT, " ", "a", " ">> \o CLOSE_TAG \o <<" ">>,
      <<OPEN_TAG, GT>> \o CLOSE_TAG,
      <<OPEN_TAG, GT, "a">> \o CLOSE_TAG \o <<OPEN_TAG, GT, "b">> \o CLOSE_TAG }

AttrValues ==
    [ nonce |-> {Absent, PyStr(<<"abc">>)},
      id |-> {Absent, PyStr(<<"x">>)},
      src |-> {Absent, PyStr(<<>>), PyStr(<<"a.js">>)},
      type |-> {Absent, PyStr(<<"module">>)},
      async |-> {Absent, PyBool(TRUE), PyBool(FALSE), PyStr(<<"False">>)},
      defer |-> {Absent, PyBool(TRUE), PyBool(FALSE)},
      integrity |-> {Absent, PyStr(<<"sha256-x">>)},
      nomodule |-> {Absent, PyBool(TRUE)} ]

\* the keyword arguments, in the order the caller wrote them
kwargs_of(a) ==
    literal_dict("nomodule", a.nomodule, 0) \o literal_dict("integrity", a.integrity, 0)
    \o literal_dict("defer", a.defer, 0) \o literal_dict("async", a.async, 0)
    \o literal_dict("type", a.type, 0) \o literal_dict("src", a.src, 0)
    \o literal_dict("id", a.id, 0) \o literal_dict("nonce", a.nonce, 0)

InitTag ==
    /\ heap = EmptyHeap
    /\ config = [DIRECTIVES |-> <<>>, has_INCLUDE_NONCE_IN |-> FALSE, INCLUDE_NONCE_IN |-> <<>>]
    /\ view = [replace |-> NoDict, update |-> NoDict]
    /\ response = NewResponse
    /\ pc = "tag"
    /\ calls = 0
    /\ last = NoCall
    /\ result = NoResult
    /\ tag = <<>>
    /\ threads = [t \in Threads |-> NoFrame]
    /\ \/ \E text \in Texts(MaxPieces) : tagcall = [content |-> PyStr(text), kwargs |-> <<>>]
       \/ \E content \in {PyNone} \cup {PyStr(x) : x \in FewTexts},
             nonce \in AttrValues.nonce, id \in AttrValues.id, src \in AttrValues.src,
             type \in AttrValues.type, async \in AttrValues.async,
             defer \in AttrValues.defer, integrity \in AttrValues.integrity,
             nomodule \in AttrValues.nomodule :
             tagcall = [content |-> content,
                        kwargs |-> kwargs_of([nonce |-> nonce, id |-> id, src |-> src,
                                              type |-> type, async |-> async, defer |-> defer,
                                              integrity |-> integrity, nomodule |-> nomodule])]

\* build_script_tag(content, **kwargs)
BuildScriptTag ==
    /\ pc = "tag"
    /\ tag' = build_script_tag(tagcall.content, tagcall.kwargs)
    /\ pc' = "done"
    /\ UNCHANGED <<heap, config, view, response, calls, last, result, tagcall, threads>>

NextTag == BuildScriptTag

SpecTag == InitTag /\ [][NextTag]_vars

-----------------------------------------------------------------------------
(* What the claims speak of *)

\* a build_policy call has ended / has returned a policy string
Called == pc = "idle" /\ calls > 0
Returned == Called /\ result.status = "ok"

ArgUpdate == or_empty(response._csp_update)
ArgReplace == or_empty(response._csp_replace)

DirectiveNames == {DEFAULT_SRC, SCRIPT_SRC, REPORT_URI, UPGRADE}

\* a dict with its lists' items in place of their addresses
DeepValue(v) == IF v.kind = "list" THEN [kind |-> "list", items |-> heap[v.ref]] ELSE v
DeepDict(d) == [i \in 1..Len(d) |-> [k |-> d[i].k, v |-> DeepValue(d[i].v)]]

DeepConfig == [config EXCEPT !.DIRECTIVES = DeepDict(@)]
DeepOverrides == [update |-> DeepDict(or_empty(view.update)),
                  replace |-> DeepDict(or_empty(view.replace))]

\* the '; '-separated fragments of a policy string
RECURSIVE SplitPolicy(_, _)
SplitPolicy(s, cur) ==
    IF s = <<>> THEN <<cur>>
    ELSE IF Len(s) >= 2 /\ s[1] = ";" /\ s[2] = " "
         THEN <<cur>> \o SplitPolicy(Tail(Tail(s)), <<>>)
         ELSE SplitPolicy(Tail(s), Append(cur, Head(s)))

Fragments == SplitPolicy(result.s, <<>>)

IsFragmentOf(f, name) == f # <<>> /\ <<Head(f)>> = name

FragmentsIn(frs, name) == SelectSeq(frs, LAMBDA f : IsFragmentOf(f, name))

\* the working directive map of the last call, after the three layers
Merged == merged(heap, config, response._csp_update, response._csp_replace, last.order)
MergedValue(m, name) == dict_get(m.csp, name, PyNone)
MergedItems(m, name) == items_of(m.heap, MergedValue(m, name))

\* the items a frame's working map holds for a name
WorkingItems(t, name) ==
    items_of(lists_of(threads[t]), dict_get(threads[t].csp, name, PyTuple(<<>>)))

\* C1: build_policy leaves the config unchanged: its directive mapping and
\* every token sequence stored in it are the same after every step of every
\* call as before it, whether the calls that share the config follow one
\* another or run interleaved
C1_ConfigUnchanged == [][DeepConfig' = DeepConfig]_vars

\* C1's case: two calls are in progress at once on a directive whose base
\* value is a list: one has appended the update's tokens to its working value,
\* the other has merged the base value and has its update pass still to do
C1_Witness ==
    \E t, u \in Threads, i \in 1..Len(config.DIRECTIVES) :
        LET name == config.DIRECTIVES[i].k
            base == config.DIRECTIVES[i].v
        IN  /\ t # u
            /\ calls = 2
            /\ base.kind = "list"
            /\ heap[base.ref] # <<>>
            /\ threads[t].at = "serialize"
            /\ threads[u].at = "update"
            /\ dict_has(threads[t].csp, name)
            /\ dict_has(threads[u].csp, name)
            /\ Len(WorkingItems(t, name)) > Len(heap[base.ref])
            /\ WorkingItems(u, name) = heap[base.ref]

\* C10: build_policy never mutates the update and replace dicts the
\* decorators captured: every token sequence in them stays as it was
C10_OverridesUnchanged == [][DeepOverrides' = DeepOverrides]_vars

\* C10's case: two calls have been made with an update whose list was
\* installed as the working value of a directive absent from base and replace
C10_Witness ==
    /\ Returned
    /\ calls = 2
    /\ \E i \in 1..Len(ArgUpdate) :
          /\ ArgUpdate[i].v.kind = "list"
          /\ ~dict_has(config.DIRECTIVES, ArgUpdate[i].k)
          /\ ~dict_has(ArgReplace, ArgUpdate[i].k)
          /\ MergedValue(Merged, ArgUpdate[i].k) = ArgUpdate[i].v

\* C2: if the merged directive map has a non-empty report-uri value, the
\* report-uri fragment is the last fragment of the returned string
C2_ReportUriLast ==
    Returned =>
        LET m == Merged
            frs == Fragments
        IN  truthy(m.heap, MergedValue(m, REPORT_URI))
                => IsFragmentOf(frs[Len(frs)], REPORT_URI)

\* C7: build_policy raises no error, whatever kinds of values the three
\* layers hold
C7_NeverRaises == Called => result.status = "ok"

\* the directive names of config["INCLUDE_NONCE_IN"], ["default-src"] when
\* the config has no such key
IncludeNames == IF config.has_INCLUDE_NONCE_IN THEN config.INCLUDE_NONCE_IN ELSE <<DEFAULT_SRC>>

NonceSupplied == last.nonce.kind = "str" /\ last.nonce.s # <<>>

NonceInjected(name) ==
    NonceSupplied /\ \E i \in 1..Len(IncludeNames) : IncludeNames[i] = name

\* the text of the nonce token with the space before it
NonceSuffix == <<" ", "'nonce-">> \o last.nonce.s \o <<"'">>

\* how many times INCLUDE_NONCE_IN lists a name
Listings(name) == Cardinality({i \in 1..Len(IncludeNames) : IncludeNames[i] = name})

RECURSIVE Times(_, _)
Times(s, n) == IF n = 0 THEN <<>> ELSE s \o Times(s, n - 1)

\* the nonce tokens a directive gets: one for each listing of its name
NonceTokens(name) == IF NonceSupplied THEN Times(NonceSuffix, Listings(name)) ELSE <<>>

\* the tokens a layer holds for a name: none for a missing entry or None, the
\* scalar itself for a scalar
LayerTokens(d, name) ==
    LET v == dict_get(d, name, PyNone)
    IN  IF v = PyNone THEN <<>>
        ELSE IF v.kind = "list" THEN heap[v.ref]
        ELSE IF v.kind = "tuple" THEN v.items
        ELSE <<v>>

HasValue(d, name) == dict_get(d, name, PyNone) # PyNone

\* each token after one space
RECURSIVE Spaced(_)
Spaced(tokens) ==
    IF tokens = <<>> THEN <<>> ELSE <<" ">> \o Head(tokens).s \o Spaced(Tail(tokens))

EmitsTokens(frs, name, tokens) ==
    FragmentsIn(frs, name) =
        << name \o Spaced(tokens) \o NonceTokens(name) >>

StringDirective(m, name) ==
    /\ name # REPORT_URI
    /\ MergedValue(m, name) # PyNone
    /\ all_str(MergedItems(m, name))

\* C3 as stated: the tokens emitted for a directive of string tokens are the
\* replace value's tokens if replace has a value that is not None, otherwise
\* the base tokens, followed by the update tokens
C3_LayeredTokens ==
    Returned =>
        LET m == Merged
            frs == Fragments
        IN  \A name \in DirectiveNames :
            StringDirective(m, name) =>
                EmitsTokens(frs, name,
                    (IF HasValue(ArgReplace, name)
                     THEN LayerTokens(ArgReplace, name)
                     ELSE LayerTokens(config.DIRECTIVES, name))
                    \o LayerTokens(ArgUpdate, name))

\* C3 amended: the tokens emitted for a directive of string tokens are the
\* replace entry's tokens if replace has an entry for the name (none when the
\* entry is None), otherwise the base tokens, followed by the update tokens,
\* in input order and with duplicates kept
C3_LayeredTokensAmended ==
    Returned =>
        LET m == Merged
            frs == Fragments
        IN  \A name \in DirectiveNames :
            StringDirective(m, name) =>
                EmitsTokens(frs, name,
                    (IF dict_has(ArgReplace, name)
                     THEN LayerTokens(ArgReplace, name)
                     ELSE LayerTokens(config.DIRECTIVES, name))
                    \o LayerTokens(ArgUpdate, name))

\* C3's case: a directive took its tokens from replace and update, with a
\* base value that did not survive and a token that occurs twice
C3_Witness ==
    /\ Returned
    /\ \E name \in DirectiveNames :
          /\ StringDirective(Merged, name)
          /\ Len(LayerTokens(config.DIRECTIVES, name)) = 2
          /\ Len(LayerTokens(ArgReplace, name)) = 2
          /\ Len(LayerTokens(ArgUpdate, name)) = 2
          /\ LayerTokens(ArgReplace, name)[2] = LayerTokens(ArgUpdate, name)[2]

\* what build_policy returns or raises for the last call's nonce and
\* iteration order with another config, update and replace
Outcome(cfg, update, replace) ==
    LET keys == key_set(cfg, replace)
        r == build_policy(heap, cfg, update, replace, last.nonce,
                          SelectSeq(last.order, LAMBDA k : k \in keys))
    IN  [status |-> r.status, s |-> r.s]

Without(optional, name) ==
    IF optional.isnone THEN optional ELSE SomeDict(dict_pop(optional.d, name))

IsNoneEntry(d, name) == dict_has(d, name) /\ dict_get(d, name, PyNone) = PyNone

\* C4 as stated: a None in replace or in update changes nothing: the call
\* gives what it gives without that entry
C4_NoneNoEffect ==
    Called =>
        \A name \in DirectiveNames :
            /\ IsNoneEntry(ArgReplace, name) =>
                  result = Outcome(config, response._csp_update,
                                   Without(response._csp_replace, name))
            /\ IsNoneEntry(ArgUpdate, name) =>
                  result = Outcome(config, Without(response._csp_update, name),
                                   response._csp_replace)

\* C4 amended: a None in update changes nothing; a None in replace removes
\* the base value: the call gives what it gives without that replace entry
\* and without the base entry of that name
C4_NoneAmended ==
    Called =>
        \A name \in DirectiveNames :
            /\ IsNoneEntry(ArgReplace, name) =>
                  result = Outcome([config EXCEPT !.DIRECTIVES = dict_pop(@, name)],
                                   response._csp_update,
                                   Without(response._csp_replace, name))
            /\ IsNoneEntry(ArgUpdate, name) =>
                  result = Outcome(config, Without(response._csp_update, name),
                                   response._csp_replace)

\* C4's case: a call returned with None in replace and in update for a
\* directive that has base tokens
C4_Witness ==
    /\ Returned
    /\ \E name \in DirectiveNames :
          /\ IsNoneEntry(ArgReplace, name)
          /\ IsNoneEntry(ArgUpdate, name)
          /\ Len(LayerTokens(config.DIRECTIVES, name)) = 2

\* C5 as stated: a directive whose merged value starts with True is
\* serialized as its bare name, one whose merged value starts with False has
\* no fragment
C5_BooleanDirectives ==
    Returned =>
        LET m == Merged
            frs == Fragments
        IN  \A name \in DirectiveNames :
            /\ is_bool(MergedItems(m, name), TRUE) => FragmentsIn(frs, name) = <<name>>
            /\ is_bool(MergedItems(m, name), FALSE) => FragmentsIn(frs, name) = <<>>

\* C5 amended: the same for every directive other than report-uri into
\* which no nonce is injected
C5_BooleanDirectivesAmended ==
    Returned =>
        LET m == Merged
            frs == Fragments
        IN  \A name \in DirectiveNames \ {REPORT_URI} :
            ~NonceInjected(name) =>
                /\ is_bool(MergedItems(m, name), TRUE) => FragmentsIn(frs, name) = <<name>>
                /\ is_bool(MergedItems(m, name), FALSE) => FragmentsIn(frs, name) = <<>>

\* C5's case: a call returned for a flag directive that is set and for one
\* whose first token is False and that has further tokens
C5_Witness ==
    /\ Returned
    /\ \E n1, n2 \in DirectiveNames \ {REPORT_URI} :
          /\ ~NonceInjected(n1) /\ ~NonceInjected(n2)
          /\ is_bool(MergedItems(Merged, n1), TRUE)
          /\ is_bool(MergedItems(Merged, n2), FALSE)
          /\ Len(MergedItems(Merged, n2)) > 1

\* the fragments of the policy the same call gives without a nonce
FragmentsBefore ==
    SplitPolicy(build_policy(heap, config, response._csp_update,
                             response._csp_replace, PyNone, last.order).s, <<>>)

\* the fragment a name has without the nonce, the bare name when it has none
FragmentBefore(before, name) ==
    IF FragmentsIn(before, name) = <<>> THEN name ELSE FragmentsIn(before, name)[1]

\* C6 as stated: with a nonce, every directive of INCLUDE_NONCE_IN has one
\* fragment: its name, the tokens serialized for it without the nonce, then
\* the one token 'nonce-<nonce>', each after one space; the name and the
\* nonce token alone when it had no fragment
C6_NonceAppendedOnce ==
    (Returned /\ NonceSupplied) =>
        LET frs == Fragments
            before == FragmentsBefore
        IN  \A i \in 1..Len(IncludeNames) :
                FragmentsIn(frs, IncludeNames[i]) =
                    << FragmentBefore(before, IncludeNames[i]) \o NonceSuffix >>

\* C6 amended: with a nonce, every directive of INCLUDE_NONCE_IN has one
\* fragment: its name, the tokens serialized for it without the nonce, then
\* 'nonce-<nonce>' once for each time INCLUDE_NONCE_IN lists the name, each
\* after one space; the name and the nonce tokens alone when it had no
\* fragment
C6_NonceAppended ==
    (Returned /\ NonceSupplied) =>
        LET frs == Fragments
            before == FragmentsBefore
        IN  \A i \in 1..Len(IncludeNames) :
                FragmentsIn(frs, IncludeNames[i]) =
                    << FragmentBefore(before, IncludeNames[i])
                       \o NonceTokens(IncludeNames[i]) >>

\* C6's case: a nonce went into a directive that had no fragment and into
\* one that INCLUDE_NONCE_IN lists twice and whose tokens came from update
C6_Witness ==
    /\ Returned
    /\ NonceSupplied
    /\ \E i, j \in 1..Len(IncludeNames) :
          /\ Listings(IncludeNames[i]) = 1
          /\ FragmentsIn(FragmentsBefore, IncludeNames[i]) = <<>>
          /\ Listings(IncludeNames[j]) = 2
          /\ Len(FragmentsIn(FragmentsBefore, IncludeNames[j])) = 1
          /\ Len(LayerTokens(ArgUpdate, IncludeNames[j])) = 2

-----------------------------------------------------------------------------
(* What the script tag claims speak of *)

Rendered == pc = "done"

SrcGiven ==
    LET src == dict_get(tagcall.kwargs, "src", PyNone)
    IN  src.kind = "str" /\ src.s # <<>>

ContentGiven == tagcall.content.kind = "str" /\ tagcall.content.s # <<>>

Text == tagcall.content.s

\* "<script", the attribute suffix and ">"
TagStart == <<"<script">> \o rstrip(format_attrs(SCRIPT_ATTRS, tagcall.kwargs)) \o <<">">>

IsOpen(i) == Text[i] = "<script"
IsClose(k) == k + 1 <= Len(Text) /\ Text[k] = "</script" /\ Text[k + 1] = ">"

\* the content holds a full block: "<script", later the ">" that ends the
\* opening tag, then at least one character, then "</script>"
FullBlock ==
    \E i, j, k \in 1..Len(Text) :
        IsOpen(i) /\ j > i /\ Text[j] = ">" /\ k >= j + 2 /\ IsClose(k)

FirstOpen == Least({i \in 1..Len(Text) : IsOpen(i)})
OpenEnd == Least({j \in (FirstOpen + 1)..Len(Text) : Text[j] = ">"})
FirstClose == Least({k \in (OpenEnd + 1)..Len(Text) : IsClose(k)})
LastClose == Greatest({k \in 1..Len(Text) : IsClose(k)})

IsTwoBlocks ==
    Text = <<"<script", ">", "a", "</script", ">", "<script", ">", "a", "</script", ">">>

\* C8: with a src attribute the rendered tag has an empty body: "></script>"
\* comes right after the attribute suffix, whatever the content
C8_SrcEmptyBody ==
    (Rendered /\ SrcGiven) => tag = TagStart \o <<"</script", ">">>

\* C8's case: a tag was rendered for a src and a content that holds a block
C8_Witness == Rendered /\ SrcGiven /\ ContentGiven /\ FullBlock

\* C9 as stated: with content and no src, the body of a full block is the
\* text from the end of the first opening tag up to the first "</script>",
\* trimmed; other content is used as it is
C9_FirstBlockInterior ==
    (Rendered /\ ContentGiven /\ ~SrcGiven) =>
        tag = TagStart
              \o (IF FullBlock THEN strip(SubSeq(Text, OpenEnd + 1, FirstClose - 1)) ELSE Text)
              \o <<"</script", ">">>

\* C9 amended: with content and no src, the body of a full block is the text
\* from the end of the first opening tag up to the last "</script>",
\* trimmed; other content is used as it is
C9_LastCloseInterior ==
    (Rendered /\ ContentGiven /\ ~SrcGiven) =>
        tag = TagStart
              \o (IF FullBlock THEN strip(SubSeq(Text, OpenEnd + 1, LastClose - 1)) ELSE Text)
              \o <<"</script", ">">>

\* C9's case: a tag was rendered for two script blocks in a row and no src
C9_Witness == Rendered /\ ~SrcGiven /\ IsTwoBlocks

====
